---------------------------- MODULE Spec2Model ----------------------------
(***************************************************************************)
(* Model of app/main.py: the WOD Renderer.  A FastAPI application served   *)
(* by one uvicorn event loop, with two coroutine handlers:                 *)
(*   GET  /        index            -- the page with an empty form         *)
(*   POST /render  render_markdown  -- runs `wod check <text>` with a      *)
(*                                     blocking subprocess.run, decodes    *)
(*                                     stdout (else stderr) as UTF-8,      *)
(*                                     renders it with markdown and        *)
(*                                     returns the page.                   *)
(* Text is a sequence of code points, process output a sequence of bytes.  *)
(***************************************************************************)
EXTENDS Integers, Sequences, FiniteSets, TLC

\* ------------------------------------------------------------------ bounds
NumReq == 2          \* requests the clients send to the server
MaxTextLen == 2      \* longest submitted markdown_text (single-request runs)
MaxOutLen == 2       \* longest validator stdout / stderr (single-request runs)

Req == 1 .. NumReq

BoundedSeq(S, n) == UNION {[1 .. k -> S] : k \in 0 .. n}

\* Code points of submitted text: space and "A".
TextAlphabet == {32, 65}
\* Bytes of validator output: space, "A", and 0xC3 0xA9 (the two bytes of U+00E9).
ByteAlphabet == {32, 65, 195, 169}

Texts == BoundedSeq(TextAlphabet, MaxTextLen)
Outputs == BoundedSeq(ByteAlphabet, MaxOutLen)

\* The smaller data of the runs with concurrent requests: an empty and a
\* non-empty submission; empty, valid and invalid output.
FewTexts == {<< >>, <<65>>}
FewOutputs == {<< >>, <<65>>, <<255>>}

Methods == {"GET", "POST"}
ExitCodes == {0, 1}

VARIABLES
    method,      \* method[r]: the request's method, "" before it is sent
    form,        \* form[r]: the form field markdown_text of a POST
    pc,          \* "idle" | "pending" | "waiting" (inside subprocess.run) | "done"
    proc,        \* validator process of r: "none" | "failed" | "running" | "hung" | "exited"
    argv,        \* argv[r]: the command line handed to subprocess.run
    returncode,  \* exit status of the validator
    stdout,      \* captured stdout bytes
    stderr,      \* captured stderr bytes
    response,    \* the response of r
    spawns,      \* spawns[r]: calls of subprocess.run made for r
    handlerRan,  \* handlerRan[r]: the body of render_markdown was entered
    decoded,     \* decoded[r]: the streams on which .decode was called
    mdCalls      \* mdCalls[r]: calls of markdown.markdown made for r

vars == <<method, form, pc, proc, argv, returncode, stdout, stderr, response,
          spawns, handlerRan, decoded, mdCalls>>

\* ------------------------------------------------------------ str.strip
IsSpace(c) == c \in {9, 10, 11, 12, 13, 28, 29, 30, 31, 32, 133, 160}

RECURSIVE LStrip(_)
LStrip(s) == IF s # << >> /\ IsSpace(Head(s)) THEN LStrip(Tail(s)) ELSE s

RECURSIVE RStrip(_)
RStrip(s) ==
    IF s # << >> /\ IsSpace(s[Len(s)]) THEN RStrip(SubSeq(s, 1, Len(s) - 1)) ELSE s

Strip(s) == RStrip(LStrip(s))

\* --------------------------------------------------- bytes.decode("utf-8")
IsCont(b) == b >= 128 /\ b <= 191

\* Number of bytes of the sequence a lead byte opens; 0: not a lead byte.
SeqLen(b) ==
    IF b < 128 THEN 1
    ELSE IF b >= 194 /\ b <= 223 THEN 2
    ELSE IF b >= 224 /\ b <= 239 THEN 3
    ELSE IF b >= 240 /\ b <= 244 THEN 4
    ELSE 0

\* The second byte's range excludes overlong forms, surrogates and > U+10FFFF.
SecondOk(b0, b1) ==
    IF b0 = 224 THEN b1 >= 160 /\ b1 <= 191
    ELSE IF b0 = 237 THEN b1 >= 128 /\ b1 <= 159
    ELSE IF b0 = 240 THEN b1 >= 144 /\ b1 <= 191
    ELSE IF b0 = 244 THEN b1 >= 128 /\ b1 <= 143
    ELSE IsCont(b1)

WellFormedAt(b, i) ==
    LET n == SeqLen(b[i])
    IN  /\ n > 0
        /\ i + n - 1 <= Len(b)
        /\ n >= 2 => SecondOk(b[i], b[i + 1])
        /\ \A k \in 2 .. (n - 1) : IsCont(b[i + k])

CodePointAt(b, i) ==
    LET n == SeqLen(b[i])
    IN  IF n = 1 THEN b[i]
        ELSE IF n = 2 THEN (b[i] - 192) * 64 + (b[i + 1] - 128)
        ELSE IF n = 3 THEN (b[i] - 224) * 4096 + (b[i + 1] - 128) * 64 + (b[i + 2] - 128)
        ELSE (b[i] - 240) * 262144 + (b[i + 1] - 128) * 4096
             + (b[i + 2] - 128) * 64 + (b[i + 3] - 128)

DecodeError == [ok |-> FALSE, text |-> << >>]

RECURSIVE DecodeFrom(_, _)
DecodeFrom(b, i) ==
    IF i > Len(b) THEN [ok |-> TRUE, text |-> << >>]
    ELSE IF ~WellFormedAt(b, i) THEN DecodeError
    ELSE LET rest == DecodeFrom(b, i + SeqLen(b[i]))
         IN  IF rest.ok
             THEN [ok |-> TRUE, text |-> <<CodePointAt(b, i)>> \o rest.text]
             ELSE DecodeError

\* Strict decoding: [ok |-> TRUE, text] or UnicodeDecodeError.
Decode(b) == DecodeFrom(b, 1)


\* ------------------------------------------------------ markdown.markdown
\* The HTML fragment is kept as the text it is the rendering of; the renderer
\* returns the empty fragment for any text that is blank once stripped.
Markdown(text) == [html_of |-> IF Strip(text) = << >> THEN << >> ELSE text]

EmptyHtml == [html_of |-> << >>]

\* -------------------------------------------------------------- responses
NoResponse ==
    [status |-> 0, exc |-> "", page |-> FALSE,
     markdown_text |-> << >>, rendered_html |-> EmptyHtml]

\* Mutant: the page echoes markdown_text.strip().
TemplateResponseStripped(markdown_text, rendered_html) ==
    [status |-> 200, exc |-> "", page |-> TRUE,
     markdown_text |-> Strip(markdown_text), rendered_html |-> rendered_html]

\* templates.TemplateResponse("index.html", {markdown_text, rendered_html})
TemplateResponse(markdown_text, rendered_html) ==
    [status |-> 200, exc |-> "", page |-> TRUE,
     markdown_text |-> markdown_text, rendered_html |-> rendered_html]

\* An exception that leaves the handler: the server answers 500, no page.
Unhandled(exc) ==
    [status |-> 500, exc |-> exc, page |-> FALSE,
     markdown_text |-> << >>, rendered_html |-> EmptyHtml]

\* A required form field that is missing: 422 from the framework, no page.
ValidationError ==
    [status |-> 422, exc |-> "RequestValidationError", page |-> FALSE,
     markdown_text |-> << >>, rendered_html |-> EmptyHtml]

\* ----------------------------------------------------- render_markdown
\* Mutant: `if ok := result.stdout.decode("utf-8").strip()`: stdout that is
\* only whitespace counts as empty.
SelectToRenderStripped(out, err) ==
    LET ok == Decode(out)
    IN  IF ~ok.ok
        THEN [exc |-> "UnicodeDecodeError", to_render |-> << >>, decoded |-> {"stdout"}]
        ELSE IF Strip(ok.text) # << >>
        THEN [exc |-> "", to_render |-> Strip(ok.text), decoded |-> {"stdout"}]
        ELSE LET e == Decode(err)
             IN  IF ~e.ok
                 THEN [exc |-> "UnicodeDecodeError", to_render |-> << >>,
                       decoded |-> {"stdout", "stderr"}]
                 ELSE [exc |-> "", to_render |-> e.text,
                       decoded |-> {"stdout", "stderr"}]

\* Mutant: both streams are decoded before one is chosen.
SelectToRenderEager(out, err) ==
    LET ok == Decode(out)
        e == Decode(err)
    IN  IF ~ok.ok \/ ~e.ok
        THEN [exc |-> "UnicodeDecodeError", to_render |-> << >>,
              decoded |-> IF ok.ok THEN {"stdout", "stderr"} ELSE {"stdout"}]
        ELSE [exc |-> "", to_render |-> IF ok.text # << >> THEN ok.text ELSE e.text,
              decoded |-> {"stdout", "stderr"}]

\* Lines 28-31: stdout is decoded first; stderr is decoded only when the
\* decoded stdout is the empty string.
SelectToRender(out, err) ==
    LET ok == Decode(out)
    IN  IF ~ok.ok
        THEN [exc |-> "UnicodeDecodeError", to_render |-> << >>, decoded |-> {"stdout"}]
        ELSE IF ok.text # << >>
        THEN [exc |-> "", to_render |-> ok.text, decoded |-> {"stdout"}]
        ELSE LET e == Decode(err)
             IN  IF ~e.ok
                 THEN [exc |-> "UnicodeDecodeError", to_render |-> << >>,
                       decoded |-> {"stdout", "stderr"}]
                 ELSE [exc |-> "", to_render |-> e.text,
                       decoded |-> {"stdout", "stderr"}]

\* Mutant: check=True.
CheckRaisesOnNonZero(code) == code # 0

\* check=False: no exit status makes subprocess.run raise.
CheckRaises(code) == FALSE

\* Form(...): the field is required, and the framework takes an empty form
\* string for a missing value.
FormMissing(text) == text = << >>

\* Mutant: the result is kept in one module-level name that every request
\* reads: the buffers of the first request whose validator exited.
CapturedShared(r) ==
    LET q == CHOOSE q \in Req : proc[q] = "exited"
    IN  [stdout |-> stdout[q], stderr |-> stderr[q], returncode |-> returncode[q]]

\* The buffers subprocess.run captured for this call.
Captured(r) == [stdout |-> stdout[r], stderr |-> stderr[r], returncode |-> returncode[r]]

\* Mutant: subprocess.run(..., timeout=t) gives up on a live process.
RunReturnsOnTimeout(r) == proc[r] \in {"running", "hung", "exited"}

\* subprocess.run returns once the process has exited and its pipes are read.
RunReturns(r) == proc[r] = "exited"

\* Mutant: the handler is a plain `def`, run in the thread pool.
EventLoopNeverBlocked == TRUE

\* The event loop runs one coroutine at a time, and subprocess.run does not
\* yield: nothing else is scheduled while a handler is inside it.
EventLoopFree == \A q \in Req : pc[q] # "waiting"

\* Lines 28-43, on the result of subprocess.run.
HandlerResult(markdown_text, result) ==
    IF CheckRaises(result.returncode)
    THEN [response |-> Unhandled("CalledProcessError"), decoded |-> {}, mdCalls |-> 0]
    ELSE LET sel == SelectToRender(result.stdout, result.stderr)
         IN  IF sel.exc # ""
             THEN [response |-> Unhandled(sel.exc), decoded |-> sel.decoded, mdCalls |-> 0]
             ELSE [response |-> TemplateResponse(markdown_text, Markdown(sel.to_render)),
                   decoded |-> sel.decoded, mdCalls |-> 1]

\* ---------------------------------------------------------------- actions
Init ==
    /\ method = [r \in Req |-> ""]
    /\ form = [r \in Req |-> << >>]
    /\ pc = [r \in Req |-> "idle"]
    /\ proc = [r \in Req |-> "none"]
    /\ argv = [r \in Req |-> << >>]
    /\ returncode = [r \in Req |-> 0]
    /\ stdout = [r \in Req |-> << >>]
    /\ stderr = [r \in Req |-> << >>]
    /\ response = [r \in Req |-> NoResponse]
    /\ spawns = [r \in Req |-> 0]
    /\ handlerRan = [r \in Req |-> FALSE]
    /\ decoded = [r \in Req |-> {}]
    /\ mdCalls = [r \in Req |-> 0]

\* A client sends request r; it waits in the server's socket until the event
\* loop takes it up.
ClientSends(r, T) ==
    /\ pc[r] = "idle"
    /\ \E m \in Methods :
          /\ method' = [method EXCEPT ![r] = m]
          /\ IF m = "POST"
             THEN \E t \in T : form' = [form EXCEPT ![r] = t]
             ELSE UNCHANGED form
    /\ pc' = [pc EXCEPT ![r] = "pending"]
    /\ UNCHANGED <<proc, argv, returncode, stdout, stderr, response, spawns,
                   handlerRan, decoded, mdCalls>>

\* GET /
index(r) ==
    /\ EventLoopFree
    /\ pc[r] = "pending"
    /\ method[r] = "GET"
    /\ response' = [response EXCEPT ![r] = TemplateResponse(<< >>, EmptyHtml)]
    /\ pc' = [pc EXCEPT ![r] = "done"]
    /\ UNCHANGED <<method, form, proc, argv, returncode, stdout, stderr, spawns,
                   handlerRan, decoded, mdCalls>>

\* POST /render whose markdown_text the framework takes for missing: the
\* handler is not called.
render_rejected(r) ==
    /\ EventLoopFree
    /\ pc[r] = "pending"
    /\ method[r] = "POST"
    /\ FormMissing(form[r])
    /\ response' = [response EXCEPT ![r] = ValidationError]
    /\ pc' = [pc EXCEPT ![r] = "done"]
    /\ UNCHANGED <<method, form, proc, argv, returncode, stdout, stderr, spawns,
                   handlerRan, decoded, mdCalls>>

\* Mutant: the launch error is caught and shown on the page.
LaunchFailsCaught(r) ==
    /\ proc' = [proc EXCEPT ![r] = "failed"]
    /\ spawns' = [spawns EXCEPT ![r] = @ + 1]
    /\ response' = [response EXCEPT ![r] = TemplateResponse(form[r], Markdown(<<65>>))]
    /\ mdCalls' = [mdCalls EXCEPT ![r] = @ + 1]
    /\ pc' = [pc EXCEPT ![r] = "done"]

\* Mutant: a failed launch is tried once more before the error is raised.
LaunchFailsRetried(r) ==
    /\ proc' = [proc EXCEPT ![r] = "failed"]
    /\ spawns' = [spawns EXCEPT ![r] = @ + 2]
    /\ response' = [response EXCEPT ![r] = Unhandled("FileNotFoundError")]
    /\ pc' = [pc EXCEPT ![r] = "done"]
    /\ UNCHANGED mdCalls

\* subprocess.run cannot start `wod`: the error leaves the handler.
LaunchFails(r) ==
    /\ proc' = [proc EXCEPT ![r] = "failed"]
    /\ spawns' = [spawns EXCEPT ![r] = @ + 1]
    /\ response' = [response EXCEPT ![r] = Unhandled("FileNotFoundError")]
    /\ pc' = [pc EXCEPT ![r] = "done"]
    /\ UNCHANGED mdCalls

\* subprocess.run starts `wod` and waits for it; the event loop waits too.
LaunchSucceeds(r) ==
    /\ proc' = [proc EXCEPT ![r] = "running"]
    /\ spawns' = [spawns EXCEPT ![r] = @ + 1]
    /\ pc' = [pc EXCEPT ![r] = "waiting"]
    /\ UNCHANGED <<response, mdCalls>>

\* POST /render: the handler is entered and calls subprocess.run (line 27).
render_markdown_call(r) ==
    /\ EventLoopFree
    /\ pc[r] = "pending"
    /\ method[r] = "POST"
    /\ ~FormMissing(form[r])
    /\ handlerRan' = [handlerRan EXCEPT ![r] = TRUE]
    /\ argv' = [argv EXCEPT ![r] = <<"wod", "check", form[r]>>]
    /\ \/ LaunchFails(r)
       \/ LaunchSucceeds(r)
    /\ UNCHANGED <<method, form, returncode, stdout, stderr, decoded>>

\* The validator writes its output and exits with some status.
ValidatorExits(r, O) ==
    /\ proc[r] = "running"
    /\ proc' = [proc EXCEPT ![r] = "exited"]
    /\ \E o \in O : stdout' = [stdout EXCEPT ![r] = o]
    /\ \E e \in O : stderr' = [stderr EXCEPT ![r] = e]
    /\ \E c \in ExitCodes : returncode' = [returncode EXCEPT ![r] = c]
    /\ UNCHANGED <<method, form, pc, argv, response, spawns, handlerRan, decoded,
                   mdCalls>>

\* The validator is one that never exits.
ValidatorHangs(r) ==
    /\ proc[r] = "running"
    /\ proc' = [proc EXCEPT ![r] = "hung"]
    /\ UNCHANGED <<method, form, pc, argv, returncode, stdout, stderr, response,
                   spawns, handlerRan, decoded, mdCalls>>

\* subprocess.run returns and the handler runs to its end (lines 28-43).
render_markdown_return(r) ==
    /\ pc[r] = "waiting"
    /\ RunReturns(r)
    /\ LET res == HandlerResult(form[r], Captured(r))
       IN  /\ response' = [response EXCEPT ![r] = res.response]
           /\ decoded' = [decoded EXCEPT ![r] = res.decoded]
           /\ mdCalls' = [mdCalls EXCEPT ![r] = @ + res.mdCalls]
    /\ pc' = [pc EXCEPT ![r] = "done"]
    /\ UNCHANGED <<method, form, proc, argv, returncode, stdout, stderr, spawns,
                   handlerRan>>

\* ---------------------------------------------------------- specifications
\* The server under concurrent requests.
Next ==
    \E r \in Req :
        \/ ClientSends(r, FewTexts)
        \/ index(r)
        \/ render_rejected(r)
        \/ render_markdown_call(r)
        \/ ValidatorExits(r, FewOutputs)
        \/ ValidatorHangs(r)
        \/ render_markdown_return(r)

Spec == Init /\ [][Next]_vars

\* The server with the scheduling the code has: a handler whose subprocess.run
\* can return does return.
\* The outputs of the runs under fairness: empty and invalid.
FairOutputs == {<< >>, <<255>>}

NextFair ==
    \E r \in Req :
        \/ ClientSends(r, FewTexts)
        \/ index(r)
        \/ render_rejected(r)
        \/ render_markdown_call(r)
        \/ ValidatorExits(r, FairOutputs)
        \/ ValidatorHangs(r)
        \/ render_markdown_return(r)

FairSpec ==
    /\ Init
    /\ [][NextFair]_vars
    /\ \A r \in Req : WF_vars(render_markdown_return(r))

\* One request, over every submission and every validator output in bounds.
NextRender ==
    \/ ClientSends(1, Texts)
    \/ index(1)
    \/ render_rejected(1)
    \/ render_markdown_call(1)
    \/ ValidatorExits(1, Outputs)
    \/ ValidatorHangs(1)
    \/ render_markdown_return(1)

SpecRender == Init /\ [][NextRender]_vars

\* ------------------------------------------------------------------ claims
\* The requests whose handler returned the page.
Rendered(r) == pc[r] = "done" /\ handlerRan[r] /\ response[r].page

\* The requests whose validator ran to its end and whose handler then finished.
Completed(r) == pc[r] = "done" /\ proc[r] = "exited"

\* C1: for every POST /render that returned a page, whatever the exit status:
\* when the decoded stdout is non-empty (whitespace-only included) the HTML is
\* the renderer applied to that text and stderr was not decoded; when it is
\* empty the HTML is the renderer applied to the decoded stderr.
C1_StdoutElseStderr ==
    \A r \in Req :
        Rendered(r) =>
            LET ok == Decode(stdout[r])
            IN  /\ ok.ok
                /\ ok.text # << >> =>
                      /\ response[r].rendered_html = Markdown(ok.text)
                      /\ "stderr" \notin decoded[r]
                /\ ok.text = << >> =>
                      /\ Decode(stderr[r]).ok
                      /\ response[r].rendered_html = Markdown(Decode(stderr[r]).text)
                /\ mdCalls[r] = 1

\* C1 witness: stdout is one space, stderr is "A", the exit status is 1, and
\* the page holds the rendering of the space, not of "A".
C1_Witness ==
    \E r \in Req :
        /\ Rendered(r)
        /\ stdout[r] = <<32>>
        /\ stderr[r] = <<65>>
        /\ returncode[r] = 1
        /\ response[r].rendered_html = EmptyHtml

\* C2: every page POST /render returns echoes the submitted markdown_text
\* exactly as submitted, on the stdout path and on the stderr path.
C2_EchoUnaltered ==
    \A r \in Req :
        Rendered(r) =>
            /\ response[r].markdown_text = form[r]
            /\ response[r].status = 200

\* C2 witness: a submission with a leading space, answered on the stderr path
\* by a validator that wrote something else.
C2_Witness ==
    \E r \in Req :
        /\ Rendered(r)
        /\ form[r] = <<32, 65>>
        /\ stdout[r] = << >>
        /\ stderr[r] = <<65, 32>>
        /\ response[r].markdown_text = <<32, 65>>

\* C3: when the validator cannot be launched the request ends in an error that
\* left the handler: no stream was decoded, the renderer was not called, and
\* the response is no page and holds neither the input nor any HTML.
C3_LaunchErrorPropagates ==
    \A r \in Req :
        proc[r] = "failed" =>
            /\ pc[r] = "done"
            /\ response[r].status = 500
            /\ response[r].exc = "FileNotFoundError"
            /\ ~response[r].page
            /\ response[r].markdown_text = << >>
            /\ response[r].rendered_html = EmptyHtml
            /\ decoded[r] = {}
            /\ mdCalls[r] = 0

\* C3 witness: a non-empty submission whose validator could not be launched.
C3_Witness ==
    \E r \in Req :
        /\ proc[r] = "failed"
        /\ form[r] = <<65, 32>>
        /\ handlerRan[r]
        /\ pc[r] = "done"

\* C4, as claimed: invalid bytes on stdout or on stderr, whatever the other
\* stream holds, end the request in a decode error and no page.
C4_AnyInvalidStreamFails ==
    \A r \in Req :
        (Completed(r) /\ (~Decode(stdout[r]).ok \/ ~Decode(stderr[r]).ok)) =>
            /\ response[r].exc = "UnicodeDecodeError"
            /\ ~response[r].page

\* C4, amended: the request ends in a decode error and no page exactly when
\* stdout is invalid, or stdout is empty and stderr is invalid; when stdout
\* decodes to non-empty text stderr is not decoded and the page is returned,
\* whatever bytes stderr holds.
C4_DecodedStreamFails ==
    \A r \in Req :
        Completed(r) =>
            LET ok == Decode(stdout[r])
                fails == ~ok.ok \/ (ok.text = << >> /\ ~Decode(stderr[r]).ok)
            IN  /\ fails =>
                      /\ response[r] = Unhandled("UnicodeDecodeError")
                      /\ mdCalls[r] = 0
                /\ ~fails => response[r].page
                /\ (ok.ok /\ ok.text # << >>) => decoded[r] = {"stdout"}

\* C4 witness: empty stdout, invalid stderr, and the decode error.
C4_Witness ==
    \E r \in Req :
        /\ Completed(r)
        /\ stdout[r] = << >>
        /\ stderr[r] = <<195, 65>>
        /\ response[r].exc = "UnicodeDecodeError"

\* C5: two requests with the same submission whose validators wrote the same
\* stdout and stderr bytes get the same response, whatever their exit
\* statuses, and no error comes from the exit status.
C5_ExitStatusIgnored ==
    \A r, q \in Req :
        (/\ Completed(r)
         /\ Completed(q)
         /\ form[r] = form[q]
         /\ stdout[r] = stdout[q]
         /\ stderr[r] = stderr[q]) =>
            /\ response[r] = response[q]
            /\ response[r].exc # "CalledProcessError"

\* C5 witness: two such requests, one validator exiting 0 and the other 1.
C5_Witness ==
    \E r, q \in Req :
        /\ Completed(r)
        /\ Completed(q)
        /\ form[r] = form[q]
        /\ stdout[r] = stdout[q]
        /\ stderr[r] = stderr[q]
        /\ returncode[r] = 0
        /\ returncode[q] = 1
        /\ response[r].page

\* C6, as claimed: a POST /render whose markdown_text is the empty string does
\* not fail before the handler: the validator is invoked once, with an empty
\* argument.
C6_EmptySubmissionRuns ==
    \A r \in Req :
        (method[r] = "POST" /\ form[r] = << >> /\ pc[r] = "done") =>
            /\ handlerRan[r]
            /\ spawns[r] = 1
            /\ Len(argv[r]) = 3
            /\ argv[r][3] = << >>

\* C7: every request whose handler ran made exactly one call of
\* subprocess.run, also after a launch failure, a decode failure or empty
\* output; every other request, GET / among them, made none; so the calls
\* made equal the POST /render handlers run.
C7_OneSpawnPerRender ==
    /\ \A r \in Req :
          /\ spawns[r] = IF handlerRan[r] THEN 1 ELSE 0
          /\ method[r] = "GET" => spawns[r] = 0
          /\ handlerRan[r] => method[r] = "POST"
    /\ Cardinality({r \in Req : spawns[r] > 0})
          = Cardinality({r \in Req : handlerRan[r]})

\* C7 witness: one request ended by a launch failure and another by a decode
\* failure, each after one call.
C7_Witness ==
    \E r, q \in Req :
        /\ proc[r] = "failed"
        /\ spawns[r] = 1
        /\ Completed(q)
        /\ response[q].exc = "UnicodeDecodeError"
        /\ spawns[q] = 1

\* What request r gets from its own submission and its own validator alone.
OwnResult(r) ==
    IF proc[r] = "failed"
    THEN Unhandled("FileNotFoundError")
    ELSE HandlerResult(form[r],
                       [stdout |-> stdout[r], stderr |-> stderr[r],
                        returncode |-> returncode[r]]).response

C9_NoTimeout ==
    /\ [](\A r \in Req :
            (pc[r] = "done" /\ proc[r] \notin {"none", "failed"}) => proc[r] = "exited")
    /\ [](\A r \in Req :
            proc[r] \in {"running", "hung"} => (pc[r] = "waiting" /\ response[r] = NoResponse))
    /\ \A r \in Req : (proc[r] = "exited") ~> (pc[r] = "done" /\ response[r] # NoResponse)

\* C9 witness: one request answered after its validator exited, another
\* waiting on a validator that never exits.
C9_Witness ==
    \E r, q \in Req :
        /\ Completed(r)
        /\ response[r].status \in {200, 500}
        /\ proc[q] = "hung"
        /\ pc[q] = "waiting"

\* The validators alive.
Alive == {r \in Req : proc[r] \in {"running", "hung"}}

\* C10: at most one validator is alive at a time, and while one is, no other
\* request that reached the server is taken up, answered or given a process.
C10_LoopBlocked ==
    /\ [](Cardinality(Alive) <= 1)
    /\ [][\A r \in Alive : \A q \in Req \ {r} :
            /\ pc[q] # "idle" => pc'[q] = pc[q]
            /\ response'[q] = response[q]
            /\ proc'[q] = proc[q]
            /\ spawns'[q] = spawns[q]]_vars

\* C10 witness: one validator that never exits, and a GET waiting behind it.
C10_Witness ==
    \E r, q \in Req :
        /\ proc[r] = "hung"
        /\ pc[q] = "pending"
        /\ method[q] = "GET"

=============================================================================
